---- MODULE Spec2Model ----
(***************************************************************************)
(* History publication of stellar-core: the durable publish queue, the     *)
(* bucket reference index and the single active publish pipeline of        *)
(* HistoryManagerImpl (src/src/history/HistoryManagerImpl.cpp).            *)
(***************************************************************************)
EXTENDS Integers, Sequences, FiniteSets, TLC

(***************************************************************************)
(* Bounds of the model.                                                    *)
(***************************************************************************)
\* Ledger numbers are taken around the first MaxCheckpoints checkpoints.
MaxCheckpoints == 2
\* At most MaxQueue rows are inserted into the publishqueue table.
MaxQueue == 2
\* mPublishQueued stops here, and so does the number of confirmations
\* (mPublishSuccess + mPublishFailure) of one run of the process.
MaxCount == 2
\* At most MaxPosted callbacks wait on the main thread.
MaxPosted == 2

\* The checkpoint functions are applied to the ledgers within WrapMargin of
\* either end of the word.
WrapMargin == 130

\* uint32_t arithmetic wraps at the width of the word. TLC's integers end at
\* 2^31 - 1, so the word is taken 16 bits wide: both checkpoint frequencies
\* divide 2^16 as they divide 2^32, and the ledgers of the queue are far
\* below either.
UIntMod == 65536

\* Content-addressed bucket identifiers (hashes), as small numbers.
Buckets == {1, 2}
\* The bucket sets a bucket list can hold when a snapshot is taken.
BucketSets == {{1}, {1, 2}}
\* Readings of std::chrono::steady_clock::now().
Times == {1}

VARIABLES
    accelerate,                 \* Config::ARTIFICIALLY_ACCELERATE_TIME_FOR_TESTING
    lcl,                        \* LedgerManager::getLastClosedLedgerNum()
    publishqueue,               \* table publishqueue: ledger -> state text
    mPublishWork,               \* {} (nullptr) or {the scheduled PublishWork}
    workScheduler,              \* WorkScheduler: how many PublishWork it runs
    mPublishQueued,             \* counter behind getPublishQueueCount()
    mPublishSuccess,            \* meter history.publish.success
    mPublishFailure,            \* meter history.publish.failure
    mEnqueueTimes,              \* map ledger -> time of enqueue
    mPublishQueueBuckets,       \* PublishQueueBuckets: bucket -> count
    mPublishQueueBucketsFilled, \* the index was loaded from the table
    mPublicationEnabled,        \* BUILD_TESTS switch
    posted,                     \* publishQueuedHistory callbacks posted on main
    marks,                      \* per ledger, the successes the pipeline reported
    works,                      \* Work node -> its lifecycle state and retries
    catchup,                    \* ApplyCheckpointWork's files and the local ledger
    lastCall                    \* the call made by the last step and its outcome

vars == <<accelerate, lcl, publishqueue, mPublishWork, workScheduler,
          mPublishQueued,
          mPublishSuccess, mPublishFailure, mEnqueueTimes,
          mPublishQueueBuckets, mPublishQueueBucketsFilled,
          mPublicationEnabled, posted, marks, works, catchup, lastCall>>

(***************************************************************************)
(* Checkpoint arithmetic.                                                  *)
(***************************************************************************)
getCheckpointFrequency == IF accelerate THEN 8 ELSE 64

prevCheckpointLedger(ledger) ==
    LET freq == getCheckpointFrequency
    IN  ((ledger \div freq) * freq) % UIntMod

nextCheckpointLedger(ledger) ==
    LET freq == getCheckpointFrequency
    IN  IF ledger = 0
        THEN freq
        ELSE ((((ledger + freq - 1) % UIntMod) \div freq) * freq) % UIntMod

checkpointContainingLedger(ledger) ==
    (nextCheckpointLedger((ledger + 1) % UIntMod) - 1) % UIntMod

\* The ledger numbers the last closed ledger takes in the model: the genesis
\* ledger 1, and each of the first checkpoints with the ledger after it.
LedgerValues ==
    {1} \cup UNION {{k * getCheckpointFrequency - 1, k * getCheckpointFrequency} :
                      k \in 1..MaxCheckpoints}

(***************************************************************************)
(* HistoryArchiveState and its text form.                                  *)
(***************************************************************************)
RECURSIVE SortedSeq(_)
SortedSeq(S) ==
    IF S = {} THEN <<>>
    ELSE LET m == CHOOSE x \in S : \A y \in S : x <= y
         IN  <<m>> \o SortedSeq(S \ {m})

\* HistoryArchiveState has(ledger, bucketList)
HistoryArchiveState(ledger, bucketList) ==
    [currentLedger |-> ledger, buckets |-> bucketList]

\* has.toString(): the ledger followed by the bucket hashes, in order
toString(has) == <<has.currentLedger>> \o SortedSeq(has.buckets)

\* has.fromString(state)
fromString(state) ==
    [currentLedger |-> state[1],
     buckets |-> {state[i] : i \in 2..Len(state)}]

\* has.allBuckets()
allBuckets(has) == has.buckets

(***************************************************************************)
(* The publishqueue table (ledger INTEGER PRIMARY KEY, state TEXT).        *)
(***************************************************************************)
\* Mutant: the table has no primary key, an insert never fails.
SqlInsertThrows_NoKey(table, ledger) == FALSE

\* INSERT INTO publishqueue (ledger, state) violates the primary key
SqlInsertThrows(table, ledger) == ledger \in DOMAIN table

\* INSERT INTO publishqueue (ledger, state) VALUES (:lg, :st)
SqlInsert(table, ledger, state) ==
    [l \in DOMAIN table \cup {ledger} |->
        IF l = ledger THEN state ELSE table[l]]

\* DELETE FROM publishqueue WHERE ledger = :lg
SqlDelete(table, ledger) ==
    [l \in DOMAIN table \ {ledger} |-> table[l]]

\* SELECT count(ledger) FROM publishqueue
publishQueueLength == Cardinality(DOMAIN publishqueue)

\* Mutant: SELECT max(ledger) in place of min(ledger).
getMinLedgerQueuedToPublish_Max ==
    IF DOMAIN publishqueue = {} THEN 0
    ELSE CHOOSE l \in DOMAIN publishqueue : \A k \in DOMAIN publishqueue : l >= k

\* SELECT min(ledger) FROM publishqueue
getMinLedgerQueuedToPublish ==
    IF DOMAIN publishqueue = {} THEN 0
    ELSE CHOOSE l \in DOMAIN publishqueue : \A k \in DOMAIN publishqueue : l <= k

\* SELECT max(ledger) FROM publishqueue
getMaxLedgerQueuedToPublish ==
    IF DOMAIN publishqueue = {} THEN 0
    ELSE CHOOSE l \in DOMAIN publishqueue : \A k \in DOMAIN publishqueue : l >= k

\* Mutant: ORDER BY ledger DESC, the row of the highest ledger.
SelectFirstState_Highest(table) ==
    table[CHOOSE l \in DOMAIN table : \A k \in DOMAIN table : l >= k]

\* SELECT state FROM publishqueue ORDER BY ledger ASC LIMIT 1 (rows exist)
SelectFirstState(table) ==
    table[CHOOSE l \in DOMAIN table : \A k \in DOMAIN table : l <= k]

\* SELECT state FROM publishqueue, each parsed
getPublishQueueStates == {fromString(publishqueue[l]) : l \in DOMAIN publishqueue}

(***************************************************************************)
(* PublishQueueBuckets: bucket -> reference count, absent when zero.       *)
(***************************************************************************)
addBuckets(map, buckets) ==
    [b \in DOMAIN map \cup buckets |->
        (IF b \in DOMAIN map THEN map[b] ELSE 0) + (IF b \in buckets THEN 1 ELSE 0)]

removeBuckets(map, buckets) ==
    [b \in {x \in DOMAIN map : ~(x \in buckets /\ map[x] = 1)} |->
        IF b \in buckets THEN map[b] - 1 ELSE map[b]]

loadBucketsReferencedByPublishQueue ==
    LET states == getPublishQueueStates
        refs == UNION {allBuckets(s) : s \in states}
    IN  [b \in refs |-> Cardinality({s \in states : b \in allBuckets(s)})]

(***************************************************************************)
(* ApplyCheckpointWork: its members, the files it reads, the local ledger. *)
(***************************************************************************)
\* What is wrong with the files of the checkpoint, and at which ledger.
Faults == {"none", "previousLedgerHash", "hash", "truncated", "txSet"}

\* catchup before any ApplyCheckpointWork was made.
NoCatchup ==
    [mCheckpointRange |-> [mFirst |-> 0, mLast |-> 0],
     mFilesOpen |-> FALSE, mHdrIn |-> 0, mTxIn |-> 0,
     fault |-> "none", at |-> 0, lclHash |-> 0, lclBucketListHash |-> 0,
     lclAtStart |-> 0]

(***************************************************************************)
(* Records of the calls, for stating what a call returned or did.          *)
(***************************************************************************)
\* op: the operation; ledger: the ledger it is called with or reads as the
\* last closed one; buckets, success: the other arguments of historyPublished;
\* writable: the answer of hasAnyWritableHistoryArchive(); ret: the value
\* returned (0 for void and false, 1 for true); threw: the call ended by an
\* exception; scheduled: the call scheduled a PublishWork. A field the
\* operation does not have is 0, {} or FALSE.

Call(op, ledger, buckets, success, writable, ret, threw, scheduled) ==
    [op |-> op, ledger |-> ledger, buckets |-> buckets, success |-> success,
     writable |-> writable, ret |-> ret, threw |-> threw,
     scheduled |-> scheduled]

(***************************************************************************)
(* Work nodes: the publish pipeline and the ApplyCheckpointWork.           *)
(***************************************************************************)
\* A failed attempt of a Work is retried at most MaxRetries times.
MaxRetries == 1

\* Mutant: the snapshot is written before its futures are resolved.
PublishStages_WriteFirst == <<"writeSnap", "resolveFutures", "putSnap">>

\* The children of the PublishWork, in the order of its sequence:
\* std::vector<std::shared_ptr<BasicWork>> seq{resolveFutures, writeSnap, putSnap}
PublishStages == <<"resolveFutures", "writeSnap", "putSnap">>

\* The Work nodes of the model: the PublishWork with its three children, and
\* an ApplyCheckpointWork that a catchup runs.
PublishNodes == {"PublishWork"} \cup {PublishStages[i] : i \in DOMAIN PublishStages}
Nodes == PublishNodes \cup {"ApplyCheckpointWork"}

\* A node as it is when created.
NewWork == [state |-> "PENDING", retries |-> 0]
NoWorks == [n \in Nodes |-> NewWork]

\* The states a node does not leave.
Terminal == {"SUCCESS", "FAILURE", "ABORTED"}

\* works with the state (and retries) of node n changed
WithState(w, n, state) == [w EXCEPT ![n].state = state]

NoMarks == [l \in {} |-> 0]

\* marks with one more success mark for ledgerSeq
Marked(m, ledgerSeq) ==
    [l \in DOMAIN m \cup {ledgerSeq} |->
        IF l = ledgerSeq THEN (IF l \in DOMAIN m THEN m[l] ELSE 0) + 1 ELSE m[l]]

(***************************************************************************)
(* HistoryManagerImpl::queueCurrentHistory                                  *)
(***************************************************************************)
\* mEnqueueTimes.emplace(ledger, now): an existing key keeps its value
Emplace(times, ledger, now) ==
    [l \in DOMAIN times \cup {ledger} |->
        IF l \in DOMAIN times THEN times[l] ELSE now]

\* ledger: the last closed ledger read; bucketList: the bucket list read;
\* now: the clock read; op, writable, ret: the operation the call is recorded
\* under, with the value ret it returns when the insert does not throw.
queueCurrentHistory(ledger, bucketList, now, op, writable, ret) ==
    LET has == HistoryArchiveState(ledger, bucketList)
        state == toString(has)
    IN  /\ mEnqueueTimes' = Emplace(mEnqueueTimes, ledger, now)
        /\ IF SqlInsertThrows(publishqueue, ledger)
           THEN /\ UNCHANGED <<publishqueue, mPublishQueued, mPublishQueueBuckets>>
                /\ lastCall' = Call(op, ledger, {}, FALSE, writable, 0, TRUE, FALSE)
           ELSE /\ publishQueueLength < MaxQueue
                /\ mPublishQueued < MaxCount
                /\ publishqueue' = SqlInsert(publishqueue, ledger, state)
                /\ mPublishQueued' = mPublishQueued + 1
                /\ mPublishQueueBuckets' =
                       addBuckets(mPublishQueueBuckets, allBuckets(has))
                /\ lastCall' = Call(op, ledger, {}, FALSE, writable, ret, FALSE, FALSE)
        /\ UNCHANGED <<mPublishWork, workScheduler, mPublishSuccess, mPublishFailure,
                       mPublishQueueBucketsFilled, mPublicationEnabled, posted,
                       marks>>

QueueCurrentHistory ==
    /\ \E bucketList \in BucketSets, now \in Times :
           queueCurrentHistory(lcl, bucketList, now, "queueCurrentHistory", FALSE, 0)
    /\ UNCHANGED <<accelerate, lcl, works, catchup>>

(***************************************************************************)
(* HistoryManagerImpl::maybeQueueHistoryCheckpoint                          *)
(***************************************************************************)
\* Mutant: the test is made on the last closed ledger, not the one after it.
IsCheckpointStart_OffByOne(seq) == seq - 1 = nextCheckpointLedger(seq - 1)

\* seq is the first ledger of a checkpoint: the one before it ends one
IsCheckpointStart(seq) == seq = nextCheckpointLedger(seq)

\* ledger: the last closed ledger read; writable: the answer of
\* hasAnyWritableHistoryArchive()
maybeQueueHistoryCheckpoint(ledger, writable) ==
    LET seq == (ledger + 1) % UIntMod
    IN  IF ~IsCheckpointStart(seq) \/ ~writable
        THEN /\ lastCall' = Call("maybeQueueHistoryCheckpoint", ledger, {}, FALSE,
                                 writable, 0, FALSE, FALSE)
             /\ UNCHANGED <<publishqueue, mPublishWork, workScheduler, mPublishQueued,
                            mPublishSuccess, mPublishFailure, mEnqueueTimes,
                            mPublishQueueBuckets, mPublishQueueBucketsFilled,
                            mPublicationEnabled, posted, marks>>
        ELSE \E bucketList \in BucketSets, now \in Times :
                 queueCurrentHistory(ledger, bucketList, now,
                                     "maybeQueueHistoryCheckpoint", TRUE, 1)

MaybeQueueHistoryCheckpoint ==
    /\ \E writable \in BOOLEAN : maybeQueueHistoryCheckpoint(lcl, writable)
    /\ UNCHANGED <<accelerate, lcl, works, catchup>>

(***************************************************************************)
(* HistoryManagerImpl::takeSnapshotAndPublish, publishQueuedHistory         *)
(***************************************************************************)
\* The PublishWork scheduled for a snapshot: the ledger of the snapshot and
\* the buckets it referenced when the work was made.
PublishWork(has) ==
    [ledger |-> has.currentLedger, originalBuckets |-> allBuckets(has)]

\* Mutant: a PublishWork is scheduled even when one is active.
takeSnapshotAndPublish_NoGuard(work, scheduler, has) ==
    <<{PublishWork(has)}, scheduler + 1>>

\* <<mPublishWork, the number of works scheduled>> after
\* takeSnapshotAndPublish(has)
takeSnapshotAndPublish(work, scheduler, has) ==
    IF work # {}
    THEN <<work, scheduler>>
    ELSE <<{PublishWork(has)}, scheduler + 1>>

publishQueuedHistory ==
    /\ IF ~mPublicationEnabled
       THEN /\ UNCHANGED <<mPublishWork, workScheduler>>
            /\ lastCall' = Call("publishQueuedHistory", 0, {}, FALSE, FALSE, 0, FALSE, FALSE)
       ELSE IF DOMAIN publishqueue # {}
       THEN LET has == fromString(SelectFirstState(publishqueue))
                after == takeSnapshotAndPublish(mPublishWork, workScheduler, has)
            IN  /\ mPublishWork' = after[1]
                /\ workScheduler' = after[2]
                /\ lastCall' = Call("publishQueuedHistory", 0, {}, FALSE, FALSE, 1, FALSE,
                                    after[2] > workScheduler)
       ELSE /\ UNCHANGED <<mPublishWork, workScheduler>>
            /\ lastCall' = Call("publishQueuedHistory", 0, {}, FALSE, FALSE, 0, FALSE, FALSE)
    /\ UNCHANGED <<accelerate, lcl, publishqueue, mPublishQueued, mPublishSuccess,
                   mPublishFailure, mEnqueueTimes, mPublishQueueBuckets,
                   mPublishQueueBucketsFilled, mPublicationEnabled, marks>>

PublishQueuedHistory ==
    /\ publishQueuedHistory
    /\ UNCHANGED <<posted, works, catchup>>

\* The main thread runs a callback posted by historyPublished.
RunPosted ==
    /\ posted > 0
    /\ posted' = posted - 1
    /\ publishQueuedHistory
    /\ UNCHANGED <<works, catchup>>

(***************************************************************************)
(* HistoryManagerImpl::getBucketsReferencedByPublishQueue                   *)
(***************************************************************************)
\* Mutant: the first call does not load the index from the table.
FilledBuckets_NoLoad(map, filled) == map

\* mPublishQueueBuckets after the lazy load of the first call
FilledBuckets(map, filled) ==
    IF ~filled THEN loadBucketsReferencedByPublishQueue ELSE map

GetBucketsReferencedByPublishQueue ==
    /\ mPublishQueueBuckets' =
           FilledBuckets(mPublishQueueBuckets, mPublishQueueBucketsFilled)
    /\ mPublishQueueBucketsFilled' = TRUE
    /\ lastCall' = Call("getBucketsReferencedByPublishQueue", 0, {}, FALSE, FALSE, 0, FALSE, FALSE)
    /\ UNCHANGED <<accelerate, lcl, publishqueue, mPublishWork, workScheduler,
                   mPublishQueued,
                   mPublishSuccess, mPublishFailure, mEnqueueTimes,
                   mPublicationEnabled, posted, marks, works, catchup>>

(***************************************************************************)
(* HistoryManagerImpl::historyPublished                                     *)
(***************************************************************************)
\* mEnqueueTimes.erase(iter) when the ledger has an enqueue time
Erase(times, ledgerSeq) == [l \in DOMAIN times \ {ledgerSeq} |-> times[l]]

\* Mutant: the row is not deleted when the publication succeeded.
QueueAfterPublished_NeverDeletes(table, ledgerSeq, success) == table

\* Mutant: the row is deleted whatever the outcome of the publication.
QueueAfterPublished_DropsOnFailure(table, ledgerSeq, success) ==
    SqlDelete(table, ledgerSeq)

\* the publishqueue table after historyPublished
QueueAfterPublished(table, ledgerSeq, success) ==
    IF success THEN SqlDelete(table, ledgerSeq) ELSE table

\* Mutant: a confirmed publication erases the index entries of its buckets
\* whatever their counts.
BucketsAfterPublished_ErasesEntries(map, originalBuckets, success) ==
    IF success THEN [b \in DOMAIN map \ originalBuckets |-> map[b]] ELSE map

\* mPublishQueueBuckets after historyPublished
BucketsAfterPublished(map, originalBuckets, success) ==
    IF success THEN removeBuckets(map, originalBuckets) ELSE map

\* Mutant: the enqueue time is erased whatever the outcome of the publication.
TimesAfterPublished_ErasesAlways(times, ledgerSeq, success) ==
    Erase(times, ledgerSeq)

\* mEnqueueTimes after historyPublished
TimesAfterPublished(times, ledgerSeq, success) ==
    IF success THEN Erase(times, ledgerSeq) ELSE times

\* Mutant: every confirmation is counted as a success.
SuccessAfterPublished_CountsFailures(count, success) == count + 1

\* mPublishSuccess.count() after historyPublished
SuccessAfterPublished(count, success) ==
    IF success THEN count + 1 ELSE count

\* mPublishFailure.count() after historyPublished
FailureAfterPublished(count, success) ==
    IF success THEN count ELSE count + 1

\* mPublishWork after historyPublished: mPublishWork.reset()
WorkAfterPublished(work) == {}

\* Mutant: historyPublished posts no callback.
PostedAfterPublished_NoPost(n, success) == n

\* Mutant: the callback is posted only after a successful publication.
PostedAfterPublished_OnlyOnSuccess(n, success) == IF success THEN n + 1 ELSE n

\* the callbacks on the main thread after historyPublished: postOnMainThread
PostedAfterPublished(n, success) == n + 1

historyPublished(ledgerSeq, originalBuckets, success) ==
    /\ posted < MaxPosted
    /\ mPublishSuccess + mPublishFailure < MaxCount
    /\ mEnqueueTimes' = TimesAfterPublished(mEnqueueTimes, ledgerSeq, success)
    /\ mPublishSuccess' = SuccessAfterPublished(mPublishSuccess, success)
    /\ mPublishFailure' = FailureAfterPublished(mPublishFailure, success)
    /\ publishqueue' = QueueAfterPublished(publishqueue, ledgerSeq, success)
    /\ mPublishQueueBuckets' =
           BucketsAfterPublished(mPublishQueueBuckets, originalBuckets, success)
    /\ mPublishWork' = WorkAfterPublished(mPublishWork)
    /\ posted' = PostedAfterPublished(posted, success)
    /\ lastCall' = Call("historyPublished", ledgerSeq, originalBuckets, success, FALSE,
                        0, FALSE, FALSE)
    /\ UNCHANGED <<accelerate, lcl, mPublishQueued, mPublishQueueBucketsFilled,
                   mPublicationEnabled>>

\* the works the scheduler runs once one of them has ended
WorkEnded(scheduler) == IF scheduler > 0 THEN scheduler - 1 ELSE 0

\* historyPublished called for any ledger closed so far, with any buckets:
\* the caller stands for a PublishWork that ends and reports these
HistoryPublished ==
    /\ \E ledgerSeq \in {l \in LedgerValues : l <= lcl},
          originalBuckets \in BucketSets, success \in BOOLEAN :
           historyPublished(ledgerSeq, originalBuckets, success)
    /\ workScheduler' = WorkEnded(workScheduler)
    /\ UNCHANGED <<marks, works, catchup>>

\* The active PublishWork ends and reports its snapshot's ledger and buckets;
\* marks counts, per ledger, the successes the pipeline has reported.
PublishWorkDone ==
    \E work \in mPublishWork, success \in BOOLEAN :
        /\ work.ledger \in DOMAIN marks => marks[work.ledger] < MaxCount
        /\ historyPublished(work.ledger, work.originalBuckets, success)
        /\ workScheduler' = WorkEnded(workScheduler)
        /\ marks' = IF mPublishSuccess' > mPublishSuccess
                    THEN Marked(marks, work.ledger) ELSE marks
        /\ UNCHANGED <<works, catchup>>

(***************************************************************************)
(* HistoryManagerImpl::setPublicationEnabled (BUILD_TESTS)                  *)
(***************************************************************************)
SetPublicationEnabled ==
    /\ \E enabled \in BOOLEAN :
           /\ enabled # mPublicationEnabled
           /\ mPublicationEnabled' = enabled
    /\ lastCall' = Call("setPublicationEnabled", 0, {}, FALSE, FALSE, 0, FALSE, FALSE)
    /\ UNCHANGED <<accelerate, lcl, publishqueue, mPublishWork, workScheduler,
                   mPublishQueued,
                   mPublishSuccess, mPublishFailure, mEnqueueTimes,
                   mPublishQueueBuckets, mPublishQueueBucketsFilled, posted, marks, works, catchup>>

(***************************************************************************)
(* The environment: ledgers close, the process restarts.                   *)
(***************************************************************************)
\* The ledger manager closes ledgers (or a catchup moves the last closed
\* ledger forward) without the history manager being called.
CloseLedger ==
    /\ \E n \in LedgerValues : n > lcl /\ lcl' = n
    /\ lastCall' = Call("closeLedger", lcl', {}, FALSE, FALSE, 0, FALSE, FALSE)
    /\ UNCHANGED <<accelerate, publishqueue, mPublishWork, workScheduler,
                   mPublishQueued,
                   mPublishSuccess, mPublishFailure, mEnqueueTimes,
                   mPublishQueueBuckets, mPublishQueueBucketsFilled,
                   mPublicationEnabled, posted, marks, works, catchup>>

\* A ledger closes and the ledger manager asks for its checkpoint to be queued.
LedgerClosed ==
    /\ \E n \in LedgerValues, writable \in BOOLEAN :
           /\ n > lcl
           /\ lcl' = n
           /\ maybeQueueHistoryCheckpoint(n, writable)
    /\ UNCHANGED <<accelerate, works, catchup>>

\* The process stops at any point and a new HistoryManagerImpl is constructed
\* on the same database: what was in memory is lost.
Restart ==
    /\ mPublishWork' = {}
    /\ workScheduler' = 0
    /\ mPublishQueued' = 0
    /\ mPublishSuccess' = 0
    /\ mPublishFailure' = 0
    /\ mEnqueueTimes' = NoMarks
    /\ mPublishQueueBuckets' = NoMarks
    /\ mPublishQueueBucketsFilled' = FALSE
    /\ mPublicationEnabled' = TRUE
    /\ posted' = 0
    /\ lastCall' = Call("restart", 0, {}, FALSE, FALSE, 0, FALSE, FALSE)
    /\ works' = NoWorks
    /\ UNCHANGED <<accelerate, lcl, publishqueue, marks, catchup>>

(***************************************************************************)
(* Specifications.                                                         *)
(***************************************************************************)
Init ==
    /\ accelerate \in BOOLEAN
    /\ lcl = 1
    /\ publishqueue = NoMarks
    /\ mPublishWork = {}
    /\ workScheduler = 0
    /\ mPublishQueued = 0
    /\ mPublishSuccess = 0
    /\ mPublishFailure = 0
    /\ mEnqueueTimes = NoMarks
    /\ mPublishQueueBuckets = NoMarks
    /\ mPublishQueueBucketsFilled = FALSE
    /\ mPublicationEnabled = TRUE
    /\ posted = 0
    /\ marks = NoMarks
    /\ works = NoWorks
    /\ catchup = NoCatchup
    /\ lastCall = Call("construct", 0, {}, FALSE, FALSE, 0, FALSE, FALSE)

\* The accelerated configuration, as the tests run it.
InitAccelerated == Init /\ accelerate

\* Any caller: the operations on the queue, in any order, with any arguments.
Next ==
    \/ CloseLedger
    \/ QueueCurrentHistory
    \/ PublishQueuedHistory
    \/ RunPosted
    \/ HistoryPublished

Spec == InitAccelerated /\ [][Next]_vars

\* The node as it runs: checkpoints are queued when ledgers close, the
\* pipeline confirms its own snapshot, and the process may restart.
NextDriven ==
    \/ LedgerClosed
    \/ PublishQueuedHistory
    \/ RunPosted
    \/ GetBucketsReferencedByPublishQueue
    \/ PublishWorkDone
    \/ SetPublicationEnabled
    \/ Restart

SpecDriven == Init /\ [][NextDriven]_vars

\* historyPublished called from outside for a queued ledger with the buckets
\* of its descriptor, whether or not a pipeline is active for it.
ConfirmQueued ==
    /\ \E ledgerSeq \in DOMAIN publishqueue, success \in BOOLEAN :
           historyPublished(ledgerSeq,
                            allBuckets(fromString(publishqueue[ledgerSeq])),
                            success)
    /\ workScheduler' = WorkEnded(workScheduler)
    /\ UNCHANGED <<marks, works, catchup>>

\* Snapshots are enqueued at any closed ledger and confirmed in any order,
\* each confirmation naming a queued ledger and its buckets.
NextDirect ==
    \/ CloseLedger
    \/ QueueCurrentHistory
    \/ GetBucketsReferencedByPublishQueue
    \/ ConfirmQueued
    \/ RunPosted

SpecDirect == Init /\ [][NextDirect]_vars

\* One run of the process from an empty queue: checkpoints are queued when
\* ledgers close, and only the active PublishWork confirms, for its own
\* ledger.
NextOneRun ==
    \/ LedgerClosed
    \/ PublishQueuedHistory
    \/ RunPosted
    \/ GetBucketsReferencedByPublishQueue
    \/ PublishWorkDone
    \/ SetPublicationEnabled

SpecOneRun == Init /\ [][NextOneRun]_vars

(***************************************************************************)
(* The checkpoint functions applied to ledgers at both ends of the word.   *)
(***************************************************************************)
ArithLedgers == (0..WrapMargin) \cup ((UIntMod - 1 - WrapMargin)..(UIntMod - 1))

\* The const functions of the manager: a call changes only the record of the
\* call, which holds the argument and the value returned.
CheckpointContainingLedger ==
    /\ \E ledger \in ArithLedgers :
           lastCall' = Call("checkpointContainingLedger", ledger, {}, FALSE, FALSE,
                            checkpointContainingLedger(ledger), FALSE, FALSE)
    /\ UNCHANGED <<accelerate, lcl, publishqueue, mPublishWork, workScheduler,
                   mPublishQueued, mPublishSuccess, mPublishFailure,
                   mEnqueueTimes, mPublishQueueBuckets,
                   mPublishQueueBucketsFilled, mPublicationEnabled, posted,
                   marks, works, catchup>>

PrevCheckpointLedger ==
    /\ \E ledger \in ArithLedgers :
           lastCall' = Call("prevCheckpointLedger", ledger, {}, FALSE, FALSE,
                            prevCheckpointLedger(ledger), FALSE, FALSE)
    /\ UNCHANGED <<accelerate, lcl, publishqueue, mPublishWork, workScheduler,
                   mPublishQueued, mPublishSuccess, mPublishFailure,
                   mEnqueueTimes, mPublishQueueBuckets,
                   mPublishQueueBucketsFilled, mPublicationEnabled, posted,
                   marks, works, catchup>>

NextCheckpointLedger ==
    /\ \E ledger \in ArithLedgers :
           lastCall' = Call("nextCheckpointLedger", ledger, {}, FALSE, FALSE,
                            nextCheckpointLedger(ledger), FALSE, FALSE)
    /\ UNCHANGED <<accelerate, lcl, publishqueue, mPublishWork, workScheduler,
                   mPublishQueued, mPublishSuccess, mPublishFailure,
                   mEnqueueTimes, mPublishQueueBuckets,
                   mPublishQueueBucketsFilled, mPublicationEnabled, posted,
                   marks, works, catchup>>

NextArith ==
    \/ CheckpointContainingLedger
    \/ PrevCheckpointLedger
    \/ NextCheckpointLedger

SpecArith == Init /\ [][NextArith]_vars

(***************************************************************************)
(* The Work state machine, the PublishWork sequence and its end.           *)
(***************************************************************************)
Roots == {"PublishWork", "ApplyCheckpointWork"}
Leaves == Nodes \ {"PublishWork"}
Stages == PublishNodes \ {"PublishWork"}

\* The node catches up before it closes ledgers of its own: it has closed
\* none and has queued nothing.
CatchingUp == lcl = 1 /\ publishqueue = NoMarks /\ mPublishWork = {}

\* The retries a node is given: a stage of the pipeline retries, the
\* sequence and the ApplyCheckpointWork never do.
RetriesOf(n) == IF n \in Stages THEN MaxRetries ELSE 0

\* The scheduler holds node n and cranks it: a root once it is scheduled, a
\* child while its parent runs.
Scheduled(n) ==
    /\ n \in PublishNodes => mPublishWork # {}
    /\ n \in Stages => works["PublishWork"].state = "RUNNING"
    /\ n = "ApplyCheckpointWork" => CatchingUp

\* The index in the sequence of the first child that has not succeeded,
\* 0 when all have.
CurrentStage(w) ==
    LET open == {i \in DOMAIN PublishStages : w[PublishStages[i]].state # "SUCCESS"}
    IN  IF open = {} THEN 0 ELSE CHOOSE i \in open : \A j \in open : i <= j

\* Mutant: a failed attempt is always retried.
AfterFailedAttempt_AlwaysRetries(work, maxRetries) ==
    [state |-> "RETRYING", retries |-> work.retries + 1]

\* A node whose attempt failed: it retries while it has retries left, and
\* fails for good otherwise.
AfterFailedAttempt(work, maxRetries) ==
    IF work.retries < maxRetries
    THEN [state |-> "RETRYING", retries |-> work.retries + 1]
    ELSE [state |-> "FAILURE", retries |-> work.retries]

\* Mutant: ApplyCheckpointWork does not acknowledge an abort.
onAbort_NotYet == FALSE

\* ApplyCheckpointWork::onAbort
onAbort == TRUE

\* What onAbort of node n can return: a stage of the pipeline may need
\* more than one step.
Acknowledges(n) == IF n = "ApplyCheckpointWork" THEN {onAbort} ELSE BOOLEAN

Cranked == Call("crankWork", 0, {}, FALSE, FALSE, 0, FALSE, FALSE)

Rest ==
    <<accelerate, lcl, publishqueue, mPublishWork, workScheduler,
      mPublishQueued, mPublishSuccess, mPublishFailure, mEnqueueTimes,
      mPublishQueueBuckets, mPublishQueueBucketsFilled, mPublicationEnabled,
      posted, marks, catchup>>

\* The scheduler starts a root that was scheduled.
StartWork ==
    /\ \E n \in Roots :
           /\ Scheduled(n)
           /\ works[n].state = "PENDING"
           /\ works' = WithState(works, n, "RUNNING")
    /\ lastCall' = Cranked
    /\ UNCHANGED Rest

\* The running sequence is cranked: it succeeds when every child has, fails
\* when its current child has failed, and starts its current child when that
\* one is pending.
RunSequence ==
    /\ Scheduled("PublishWork")
    /\ works["PublishWork"].state = "RUNNING"
    /\ LET i == CurrentStage(works)
       IN  IF i = 0
           THEN works' = WithState(works, "PublishWork", "SUCCESS")
           ELSE LET child == PublishStages[i]
                IN  \/ /\ works[child].state = "FAILURE"
                       /\ works' = WithState(works, "PublishWork", "FAILURE")
                    \/ /\ works[child].state = "PENDING"
                       /\ works' = WithState(works, child, "RUNNING")
    /\ lastCall' = Cranked
    /\ UNCHANGED Rest

\* A running leaf is stepped: it succeeds, waits for an event, or its
\* attempt fails.
RunWork ==
    /\ \E n \in Leaves, outcome \in {"SUCCESS", "WAITING", "failed"} :
           /\ Scheduled(n)
           /\ works[n].state = "RUNNING"
           /\ works' = [works EXCEPT ![n] =
                           IF outcome = "failed"
                           THEN AfterFailedAttempt(@, RetriesOf(n))
                           ELSE [@ EXCEPT !.state = outcome]]
    /\ lastCall' = Cranked
    /\ UNCHANGED Rest

\* The event a leaf waits for is ready, or its backoff timer fires.
WakeWork ==
    /\ \E n \in Leaves :
           /\ Scheduled(n)
           /\ works[n].state \in {"WAITING", "RETRYING"}
           /\ works' = WithState(works, n, "RUNNING")
    /\ lastCall' = Cranked
    /\ UNCHANGED Rest

\* The abort of a scheduled root that has not ended is requested.
RequestAbort ==
    /\ \E n \in Roots :
           /\ n \in PublishNodes => mPublishWork # {}
           /\ n = "ApplyCheckpointWork" => CatchingUp /\ works[n].state # "PENDING"
           /\ works[n].state \notin Terminal \cup {"ABORTING"}
           /\ works' = WithState(works, n, "ABORTING")
    /\ lastCall' = Call("requestAbort", 0, {}, FALSE, FALSE, 0, FALSE, FALSE)
    /\ UNCHANGED Rest

\* works after the aborting sequence is cranked: it is aborted once every
\* child has ended, and until then asks the children that have not ended to
\* abort.
AbortSequence(w) ==
    IF \A c \in Stages : w[c].state \in Terminal
    THEN WithState(w, "PublishWork", "ABORTED")
    ELSE [n \in Nodes |->
             IF n \in Stages /\ w[n].state \notin Terminal
             THEN [w[n] EXCEPT !.state = "ABORTING"]
             ELSE w[n]]

\* An aborting node is cranked: a leaf is aborted when its onAbort returns
\* true.
AbortWork ==
    /\ \/ /\ mPublishWork # {}
          /\ works["PublishWork"].state = "ABORTING"
          /\ works' = AbortSequence(works)
       \/ \E n \in Leaves, done \in BOOLEAN :
              /\ n \in Stages => mPublishWork # {}
              /\ works[n].state = "ABORTING"
              /\ done \in Acknowledges(n)
              /\ works' = IF done THEN WithState(works, n, "ABORTED") ELSE works
    /\ lastCall' = Cranked
    /\ UNCHANGED Rest

\* works once the scheduler has discarded the PublishWork that ended: the
\* next PublishWork and its children are new nodes.
Discarded(w) == [n \in Nodes |-> IF n \in PublishNodes THEN NewWork ELSE w[n]]

\* The PublishWork has ended and reports to the history manager: success
\* when its sequence succeeded, failure when it failed.
PublishWorkEnded ==
    \E work \in mPublishWork :
        /\ works["PublishWork"].state \in {"SUCCESS", "FAILURE"}
        /\ work.ledger \in DOMAIN marks => marks[work.ledger] < MaxCount
        /\ historyPublished(work.ledger, work.originalBuckets,
                            works["PublishWork"].state = "SUCCESS")
        /\ workScheduler' = WorkEnded(workScheduler)
        /\ marks' = IF mPublishSuccess' > mPublishSuccess
                    THEN Marked(marks, work.ledger) ELSE marks
        /\ works' = Discarded(works)
        /\ UNCHANGED catchup

\* The node closes ledgers once it is in sync: it needed no catchup, or its
\* catchup has succeeded.
LedgerClosedInSync ==
    /\ works["ApplyCheckpointWork"].state \in {"PENDING", "SUCCESS"}
    /\ LedgerClosed

NextWork ==
    \/ LedgerClosedInSync
    \/ PublishQueuedHistory
    \/ RunPosted
    \/ StartWork
    \/ RunSequence
    \/ RunWork
    \/ WakeWork
    \/ RequestAbort
    \/ AbortWork
    \/ PublishWorkEnded

SpecWork == InitAccelerated /\ [][NextWork]_vars



(***************************************************************************)
(* ApplyCheckpointWork::onRun, one ledger in each run.                     *)
(***************************************************************************)
\* The first ledger of the checkpoint that ends at ledger checkpoint: the
\* first checkpoint starts at ledger 1 and is one ledger shorter.
FirstInCheckpoint(checkpoint) ==
    IF checkpoint < getCheckpointFrequency THEN 1
    ELSE checkpoint - getCheckpointFrequency + 1

\* The hash of the header of ledger seq in the published history, and a
\* hash that is not that one.
LedgerHash(seq) == 2 * seq
ForgedHash(seq) == 2 * seq + 1

\* The hash of the bucket list in the header of ledger seq in the published
\* history, and the one a ledger closed otherwise has.
BucketListHash(seq) == 3 * seq
OtherBucketListHash(seq) == 3 * seq + 1

\* The checkpoint whose files the work reads.
mCheckpoint(c) == checkpointContainingLedger(c.mCheckpointRange.mLast)

\* mHdrIn.readOne at position i (from 0) of the ledger file: the set of the
\* record read, empty at the end of the file.
HeaderAt(c, i) ==
    LET seq == FirstInCheckpoint(mCheckpoint(c)) + i
    IN  IF seq > mCheckpoint(c) \/ (c.fault = "truncated" /\ seq >= c.at)
        THEN {}
        ELSE {[ledgerSeq |-> seq,
               previousLedgerHash |->
                   IF c.fault = "previousLedgerHash" /\ seq = c.at
                   THEN ForgedHash(seq - 1) ELSE LedgerHash(seq - 1),
               hash |->
                   IF c.fault = "hash" /\ seq = c.at
                   THEN ForgedHash(seq) ELSE LedgerHash(seq)]}

\* mTxIn.readOne at position i of the transaction file: the ledger of the
\* transaction set read.
TxAt(c, i) == FirstInCheckpoint(mCheckpoint(c)) + i

\* The transaction set of that record: the one that was published, or
\* another one.
TxSetAt(c, i) ==
    IF c.fault = "txSet" /\ TxAt(c, i) = c.at THEN "other" ELSE "published"

\* LedgerManager::closeLedger: the header the local ledger closes at seq
\* with the transaction set txSet on top of a last closed header of hash
\* lclHash: the published one when both are the published ones.
closeLedger(lclHash, seq, txSet) ==
    IF lclHash = LedgerHash(seq - 1) /\ txSet = "published"
    THEN [hash |-> LedgerHash(seq), bucketListHash |-> BucketListHash(seq)]
    ELSE [hash |-> ForgedHash(seq), bucketListHash |-> OtherBucketListHash(seq)]

\* Mutant: a ledger at or below the last closed one is applied again.
IsOld_Never(ledgerSeq, lastClosed) == FALSE

\* The ledger of the header read was closed locally already.
IsOld(ledgerSeq, lastClosed) == ledgerSeq <= lastClosed

\* Mutant: the chain is not checked at the last closed ledger.
KnitsUp_Unchecked(header, lclHash) == TRUE

\* The header read continues the local chain.
KnitsUp(header, lclHash) == header.previousLedgerHash = lclHash

\* ApplyCheckpointWork::applyHistoryOfSingleLedger on the members c and the
\* last closed ledger lastClosed: the members and the last closed ledger
\* after it, and whether it ended without an error.
applyHistoryOfSingleLedger(c, lastClosed) ==
    LET hdr == HeaderAt(c, c.mHdrIn)
    IN  IF hdr = {}
        THEN [catchup |-> c, lcl |-> lastClosed, ok |-> FALSE]
        ELSE LET header == CHOOSE h \in hdr : TRUE
                 read == [c EXCEPT !.mHdrIn = @ + 1]
             IN  IF IsOld(header.ledgerSeq, lastClosed)
                 THEN [catchup |-> [read EXCEPT !.mTxIn = @ + 1],
                       lcl |-> lastClosed, ok |-> TRUE]
                 ELSE IF ~KnitsUp(header, c.lclHash)
                 THEN [catchup |-> read, lcl |-> lastClosed, ok |-> FALSE]
                 ELSE LET closed == closeLedger(c.lclHash, TxAt(c, c.mTxIn),
                                                TxSetAt(c, c.mTxIn))
                      IN  [catchup |-> [read EXCEPT
                                           !.mTxIn = @ + 1,
                                           !.lclHash = closed.hash,
                                           !.lclBucketListHash = closed.bucketListHash],
                           lcl |-> header.ledgerSeq,
                           ok |-> closed.hash = header.hash]


\* The members once the files are open: openInputFiles opens them at their
\* first record.
Opened(c) ==
    IF c.mFilesOpen THEN c
    ELSE [c EXCEPT !.mFilesOpen = TRUE, !.mHdrIn = 0, !.mTxIn = 0]

\* Mutant: onRun reports SUCCESS after any ledger it read without an error.
StateAfterRun_AnyLedger(work, r, mLast) ==
    IF ~r.ok THEN AfterFailedAttempt(work, RetriesOf("ApplyCheckpointWork"))
    ELSE [work EXCEPT !.state = "SUCCESS"]

\* The state onRun returns: FAILURE after an error (the work has no retry),
\* SUCCESS once the last ledger of the range is the last closed one, and
\* RUNNING for the next ledger otherwise.
StateAfterRun(work, r, mLast) ==
    IF ~r.ok THEN AfterFailedAttempt(work, RetriesOf("ApplyCheckpointWork"))
    ELSE IF r.lcl = mLast THEN [work EXCEPT !.state = "SUCCESS"]
    ELSE work

Pipeline ==
    <<accelerate, publishqueue, mPublishWork, workScheduler, mPublishQueued,
      mPublishSuccess, mPublishFailure, mEnqueueTimes, mPublishQueueBuckets,
      mPublishQueueBucketsFilled, mPublicationEnabled, posted, marks>>

\* The scheduler starts the ApplyCheckpointWork: onReset closes the files.
ApplyStart ==
    /\ works["ApplyCheckpointWork"].state = "PENDING"
    /\ works' = WithState(works, "ApplyCheckpointWork", "RUNNING")
    /\ catchup' = [catchup EXCEPT !.mFilesOpen = FALSE, !.mHdrIn = 0, !.mTxIn = 0]
    /\ lastCall' = Cranked
    /\ UNCHANGED <<lcl, Pipeline>>

\* ApplyCheckpointWork::onRun
OnRun ==
    /\ works["ApplyCheckpointWork"].state = "RUNNING"
    /\ LET r == applyHistoryOfSingleLedger(Opened(catchup), lcl)
       IN  /\ catchup' = r.catchup
           /\ lcl' = r.lcl
           /\ works' = [works EXCEPT !["ApplyCheckpointWork"] =
                           StateAfterRun(@, r, catchup.mCheckpointRange.mLast)]
           /\ lastCall' = Call("onRun", lcl, {}, r.ok, FALSE, 0, FALSE, FALSE)
    /\ UNCHANGED Pipeline

\* The abort of the ApplyCheckpointWork is requested while it runs.
ApplyShutdown ==
    /\ works["ApplyCheckpointWork"].state = "RUNNING"
    /\ works' = WithState(works, "ApplyCheckpointWork", "ABORTING")
    /\ lastCall' = Call("requestAbort", 0, {}, FALSE, FALSE, 0, FALSE, FALSE)
    /\ UNCHANGED <<lcl, catchup, Pipeline>>

\* The aborting ApplyCheckpointWork is cranked.
ApplyAbort ==
    /\ works["ApplyCheckpointWork"].state = "ABORTING"
    /\ works' = IF onAbort THEN WithState(works, "ApplyCheckpointWork", "ABORTED")
                ELSE works
    /\ lastCall' = Cranked
    /\ UNCHANGED <<lcl, catchup, Pipeline>>

\* The checkpoints a work is made for.
Checkpoints == {k * getCheckpointFrequency - 1 : k \in 1..MaxCheckpoints}

\* An ApplyCheckpointWork is made for the range [mFirst, mLast] within one
\* checkpoint, on a local ledger closed at lcl (the genesis ledger 1 or a
\* later one), at or after the ledger before the range and the checkpoint,
\* with the files of the checkpoint right or wrong at one ledger.
InitApply ==
    /\ accelerate = TRUE
    /\ \E checkpoint \in Checkpoints :
       \E mLast \in FirstInCheckpoint(checkpoint)..checkpoint :
       \E lastClosed \in (FirstInCheckpoint(checkpoint) - 2)..mLast :
       \E mFirst \in {FirstInCheckpoint(checkpoint), lastClosed + 1} :
       \E fault \in Faults :
       \E at \in FirstInCheckpoint(checkpoint)..checkpoint :
           /\ lastClosed >= 1
           /\ FirstInCheckpoint(checkpoint) <= mFirst
           /\ mFirst <= mLast
           /\ fault = "none" => at = FirstInCheckpoint(checkpoint)
           /\ lcl = lastClosed
           /\ catchup = [mCheckpointRange |-> [mFirst |-> mFirst, mLast |-> mLast],
                         mFilesOpen |-> FALSE, mHdrIn |-> 0, mTxIn |-> 0,
                         fault |-> fault, at |-> at,
                         lclHash |-> LedgerHash(lastClosed),
                         lclBucketListHash |-> BucketListHash(lastClosed),
                         lclAtStart |-> lastClosed]
    /\ publishqueue = NoMarks
    /\ mPublishWork = {}
    /\ workScheduler = 0
    /\ mPublishQueued = 0
    /\ mPublishSuccess = 0
    /\ mPublishFailure = 0
    /\ mEnqueueTimes = NoMarks
    /\ mPublishQueueBuckets = NoMarks
    /\ mPublishQueueBucketsFilled = FALSE
    /\ mPublicationEnabled = TRUE
    /\ posted = 0
    /\ marks = NoMarks
    /\ works = NoWorks
    /\ lastCall = Call("construct", 0, {}, FALSE, FALSE, 0, FALSE, FALSE)

NextApply ==
    \/ ApplyStart
    \/ OnRun
    \/ ApplyShutdown
    \/ ApplyAbort

SpecApply == InitApply /\ [][NextApply]_vars



(***************************************************************************)
(* CatchupSimulation::validateCatchup                                      *)
(***************************************************************************)
\* What the publishing node recorded of each ledger it closed, from ledger
\* 2 on: the entry at(i) is that of ledger i + 2.
mLedgerSeqs(i) == i + 2
mLedgerHashes(i) == LedgerHash(i + 2)
mBucketListHashes(i) == BucketListHash(i + 2)

\* The CHECKs of validateCatchup on a ledger last closed at lastClosed with
\* the header hashes of c: all pass. Nothing is checked before ledger 2.
validateCatchup(lastClosed, c) ==
    LET nextLedger == lastClosed + 1
        i == nextLedger - 3
    IN  nextLedger >= 3 =>
            /\ mLedgerSeqs(i) = lastClosed
            /\ mBucketListHashes(i) = c.lclBucketListHash
            /\ mLedgerHashes(i) = c.lclHash

(***************************************************************************)
(* CatchupRange, CheckpointRange and the work a catchup is expected to do. *)
(***************************************************************************)
MaxTarget == 260
LastClosedLedgers == {1, 7, 8, 9, 63, 64, 70, 127, 128}
Counts == {1, 8, 9, 63, 64, 65, 100, 136, 137}

GENESIS_LEDGER_SEQ == 1

\* CatchupConfiguration: the ledger to catch up to, and the replay policy:
\* everything (complete) or the last count ledgers.
Configurations ==
    [toLedger : 2..MaxTarget, complete : {FALSE}, count : Counts]
        \cup [toLedger : 2..MaxTarget, complete : {TRUE}, count : {0}]

LedgerRange(first, last) == [mFirst |-> first, mCount |-> last - first + 1]

\* The target is within the replay window of the last closed ledger, or
\* everything is replayed.
ReplaysAll(lastClosedLedger, configuration) ==
    \/ configuration.complete
    \/ configuration.count >= configuration.toLedger - lastClosedLedger

\* The first ledger of the replay window that ends at the target.
WindowStart(configuration) == configuration.toLedger - configuration.count + 1

\* Mutant: the replay starts at the first ledger of the window.
ReplayStart_Unaligned(configuration) == WindowStart(configuration)

\* The first ledger to replay after the buckets are restored: the first
\* ledger of the checkpoint that holds the start of the replay window.
ReplayStart(configuration) ==
    FirstInCheckpoint(checkpointContainingLedger(WindowStart(configuration)))

\* CatchupRange{lastClosedLedger, configuration, historyManager}
CatchupRange(lastClosedLedger, configuration) ==
    IF ReplaysAll(lastClosedLedger, configuration)
    THEN [mLedgers |-> LedgerRange(lastClosedLedger + 1, configuration.toLedger),
          mApplyBuckets |-> FALSE]
    ELSE [mLedgers |-> LedgerRange(ReplayStart(configuration), configuration.toLedger),
          mApplyBuckets |-> TRUE]

\* CatchupRange::getLast
getLast(catchupRange) ==
    catchupRange.mLedgers.mFirst + catchupRange.mLedgers.mCount - 1

\* CheckpointRange{{first, last}, historyManager}: the checkpoints of the
\* first and of the last ledger.
CheckpointRange(first, last) ==
    [mFirst |-> checkpointContainingLedger(first),
     mLast |-> checkpointContainingLedger(last)]

\* CheckpointRange::count
count(range) == (range.mLast - range.mFirst) \div getCheckpointFrequency + 1

\* The catchups the model computes: to a ledger after the last closed one,
\* and, when buckets are restored, with a replay window that starts after
\* the first checkpoint.
CanCatchup(lastClosedLedger, configuration) ==
    /\ configuration.toLedger > lastClosedLedger
    /\ ~ReplaysAll(lastClosedLedger, configuration) =>
           checkpointContainingLedger(WindowStart(configuration))
               > checkpointContainingLedger(GENESIS_LEDGER_SEQ)


\* Mutant: the verified checkpoints start at the first ledger applied.
verifyCheckpointRange_FromFirst(catchupRange) ==
    CheckpointRange(catchupRange.mLedgers.mFirst, getLast(catchupRange))

\* The checkpoints whose ledger headers are downloaded and verified.
verifyCheckpointRange(catchupRange) ==
    CheckpointRange((catchupRange.mLedgers.mFirst + UIntMod - 1) % UIntMod,
                    getLast(catchupRange))

\* The checkpoints whose transactions are downloaded and applied.
applyCheckpointRange(catchupRange) ==
    CheckpointRange(catchupRange.mLedgers.mFirst, getLast(catchupRange))

\* Mutant: a second history archive state is fetched whenever the verified
\* range has more than one checkpoint.
historyArchiveStatesDownloaded_IgnoresBuckets(catchupRange) ==
    IF verifyCheckpointRange(catchupRange).mFirst
           # verifyCheckpointRange(catchupRange).mLast
    THEN 2 ELSE 1

historyArchiveStatesDownloaded(catchupRange) ==
    IF /\ catchupRange.mApplyBuckets
       /\ verifyCheckpointRange(catchupRange).mFirst
              # verifyCheckpointRange(catchupRange).mLast
    THEN 2 ELSE 1

\* Mutant: the last ledger applied is taken for their number.
transactionsApplied_Last(catchupRange) == getLast(catchupRange)

transactionsApplied(catchupRange) == catchupRange.mLedgers.mCount

\* std::max
Max(a, b) == IF a >= b THEN a ELSE b

\* CatchupSimulation::computeCatchupPerformedWork
computeCatchupPerformedWork(lastClosedLedger, catchupConfiguration) ==
    LET catchupRange == CatchupRange(lastClosedLedger, catchupConfiguration)
        firstVerifiedLedger ==
            Max(GENESIS_LEDGER_SEQ,
                (verifyCheckpointRange(catchupRange).mFirst + 1 + UIntMod
                     - getCheckpointFrequency) % UIntMod)
    IN  [historyArchiveStatesDownloaded |->
             historyArchiveStatesDownloaded(catchupRange),
         ledgersDownloaded |-> count(verifyCheckpointRange(catchupRange)),
         ledgersVerified |->
             (catchupConfiguration.toLedger + UIntMod - firstVerifiedLedger + 1)
                 % UIntMod,
         ledgerChainsVerificationFailed |-> 0,
         bucketsDownloaded |-> catchupRange.mApplyBuckets,
         bucketsApplied |-> catchupRange.mApplyBuckets,
         transactionsDownloaded |-> count(applyCheckpointRange(catchupRange)),
         transactionsApplied |-> transactionsApplied(catchupRange)]

Others ==
    <<accelerate, lcl, publishqueue, mPublishWork, workScheduler,
      mPublishQueued, mPublishSuccess, mPublishFailure, mEnqueueTimes,
      mPublishQueueBuckets, mPublishQueueBucketsFilled, mPublicationEnabled,
      posted, marks, works, catchup>>

\* A catchup is asked for: the last closed ledger and the configuration.
InitRange ==
    /\ accelerate \in BOOLEAN
    /\ lcl \in LastClosedLedgers
    /\ \E configuration \in Configurations :
           /\ CanCatchup(lcl, configuration)
           /\ lastCall = [op |-> "startCatchup", configuration |-> configuration]
    /\ publishqueue = NoMarks
    /\ mPublishWork = {}
    /\ workScheduler = 0
    /\ mPublishQueued = 0
    /\ mPublishSuccess = 0
    /\ mPublishFailure = 0
    /\ mEnqueueTimes = NoMarks
    /\ mPublishQueueBuckets = NoMarks
    /\ mPublishQueueBucketsFilled = FALSE
    /\ mPublicationEnabled = TRUE
    /\ posted = 0
    /\ marks = NoMarks
    /\ works = NoWorks
    /\ catchup = NoCatchup

\* The CatchupRange of the catchup is computed.
MakeCatchupRange ==
    /\ lastCall.op = "startCatchup"
    /\ lastCall' = [op |-> "CatchupRange",
                    configuration |-> lastCall.configuration,
                    catchupRange |-> CatchupRange(lcl, lastCall.configuration)]
    /\ UNCHANGED Others

\* The CheckpointRange of the ledgers from the last closed one to the target
\* is computed and counted.
MakeCheckpointRange ==
    /\ lastCall.op = "startCatchup"
    /\ lastCall' = [op |-> "CheckpointRange",
                    configuration |-> lastCall.configuration,
                    range |-> CheckpointRange(lcl, lastCall.configuration.toLedger),
                    count |-> count(CheckpointRange(lcl, lastCall.configuration.toLedger))]
    /\ UNCHANGED Others

\* The work the catchup is expected to do is computed.
ComputeCatchupPerformedWork ==
    /\ lastCall.op = "startCatchup"
    /\ lastCall' =
           [op |-> "computeCatchupPerformedWork",
            configuration |-> lastCall.configuration,
            catchupRange |-> CatchupRange(lcl, lastCall.configuration),
            verifyCheckpointRange |->
                verifyCheckpointRange(CatchupRange(lcl, lastCall.configuration)),
            applyCheckpointRange |->
                applyCheckpointRange(CatchupRange(lcl, lastCall.configuration)),
            work |-> computeCatchupPerformedWork(lcl, lastCall.configuration)]
    /\ UNCHANGED Others

NextRange ==
    \/ MakeCatchupRange
    \/ MakeCheckpointRange
    \/ ComputeCatchupPerformedWork

SpecRange == InitRange /\ [][NextRange]_vars

\* The roots the scheduler holds: the PublishWork from the moment it is
\* scheduled, the ApplyCheckpointWork from its first crank.
Children ==
    {n \in Roots :
        /\ Scheduled(n)
        /\ n = "ApplyCheckpointWork" => works[n].state # "PENDING"}

\* BasicWork::isDone
isDone(n) == works[n].state \in Terminal

\* Work::allChildrenDone, as polled at HistoryTestsUtils.cpp 580 and 620.
allChildrenDone == \A n \in Children : isDone(n)

\* The attempt of the running leaf n ends: it succeeds or it fails.
AttemptEnds(n) ==
    /\ RunWork
    /\ works[n].state = "RUNNING"
    /\ works'[n].state \in {"SUCCESS", "RETRYING", "FAILURE"}

\* A crank of an aborting node that makes progress.
AbortProgress == AbortWork /\ works' # works

\* The event loop is cranked for ever (HistoryTestsUtils.cpp 580-584 and
\* 620-622): each node that can be cranked is cranked, each awaited event
\* fires, and a leaf that runs again and again ends its attempt.
FairLoop ==
    /\ WF_vars(StartWork)
    /\ WF_vars(RunSequence)
    /\ WF_vars(WakeWork)
    /\ WF_vars(AbortProgress)
    /\ SF_vars(\E n \in Leaves : AttemptEnds(n))

\* The node in sync closes the ledgers up to the last one of a checkpoint,
\* and its archive is writable.
CheckpointClosed ==
    /\ works["ApplyCheckpointWork"].state \in {"PENDING", "SUCCESS"}
    /\ \E n \in LedgerValues :
           /\ n > lcl
           /\ IsCheckpointStart(n + 1)
           /\ \A k \in LedgerValues : k > lcl /\ IsCheckpointStart(k + 1) => n <= k
           /\ lcl' = n
           /\ maybeQueueHistoryCheckpoint(n, TRUE)
    /\ UNCHANGED <<accelerate, works, catchup>>

NextLoop ==
    \/ CheckpointClosed
    \/ PublishQueuedHistory
    \/ RunPosted
    \/ StartWork
    \/ RunSequence
    \/ RunWork
    \/ WakeWork
    \/ RequestAbort
    \/ AbortWork
    \/ PublishWorkEnded

SpecWorkFair == InitAccelerated /\ [][NextLoop]_vars /\ FairLoop


(***************************************************************************)
(* The publishing node under a cranked event loop.                         *)
(***************************************************************************)
\* The ledger manager calls publishQueuedHistory after the ledger it closed.
PublishAfterClose ==
    /\ lastCall.op = "maybeQueueHistoryCheckpoint"
    /\ PublishQueuedHistory

NextPublish ==
    \/ LedgerClosed
    \/ PublishAfterClose
    \/ RunPosted
    \/ PublishWorkDone

\* The event loop keeps being cranked (HistoryTestsUtils.cpp 580-584): the
\* call that follows a closed ledger is made, a posted callback runs, and
\* the PublishWork scheduled ends.
FairPublish ==
    /\ WF_vars(PublishAfterClose)
    /\ WF_vars(RunPosted)
    /\ WF_vars(PublishWorkDone)

SpecPublishFair == Init /\ [][NextPublish]_vars /\ FairPublish

(***************************************************************************)
(* Properties.                                                             *)
(***************************************************************************)
\* The step is a call of historyPublished.
IsPublished == lastCall'.op = "historyPublished"

\* C1: a row of the publish queue leaves it only in a step that is
\* historyPublished(N, _, success = true) for the ledger N of that row, and a
\* historyPublished(N, _, success = false) leaves the whole table as it was.
C1_RemovedOnlyBySuccess ==
    [][ /\ \A l \in DOMAIN publishqueue \ DOMAIN publishqueue' :
              IsPublished /\ lastCall'.success /\ lastCall'.ledger = l
        /\ IsPublished /\ ~lastCall'.success => publishqueue' = publishqueue
      ]_vars

\* C1 witness: a failed publication of a queued ledger, the row still queued
\* with the text it was given.
C1_Witness ==
    /\ lastCall.op = "historyPublished"
    /\ ~lastCall.success
    /\ lastCall.ledger \in DOMAIN publishqueue
    /\ publishqueue[lastCall.ledger][1] = lastCall.ledger
    /\ mPublishFailure = 1

\* The step schedules a PublishWork and makes it the active one.
StartsPipeline == mPublishWork' # mPublishWork /\ mPublishWork' # {}

\* C2: the queue is drained in ascending ledger order: a pipeline is only
\* started for the lowest ledger in the queue, and each ledger the pipeline
\* confirms as published is above every ledger confirmed before it.
C2_AscendingOrder ==
    [][ /\ StartsPipeline =>
              \A w \in mPublishWork' :
                  /\ w.ledger \in DOMAIN publishqueue
                  /\ \A l \in DOMAIN publishqueue : w.ledger <= l
        /\ IsPublished /\ lastCall'.success =>
              \A l \in DOMAIN marks : l < lastCall'.ledger
      ]_vars

\* C2 witness: two checkpoints have been confirmed in one run of the process,
\* the higher one last.
C2_Witness ==
    /\ Cardinality(DOMAIN marks) = 2
    /\ lastCall.op = "historyPublished"
    /\ lastCall.success
    /\ \A l \in DOMAIN marks : l <= lastCall.ledger
    /\ mPublishSuccess = 2

\* The snapshots takeSnapshotAndPublish can be called with.
Snapshots ==
    {HistoryArchiveState(l, b) : l \in LedgerValues, b \in BucketSets}

\* C3: at most one publish pipeline is active: the scheduler runs at most one
\* PublishWork, the one mPublishWork holds; takeSnapshotAndPublish, with any
\* snapshot, changes neither while mPublishWork is set, and a
\* publishQueuedHistory made while it is set replaces and schedules nothing.
C3_OnePipeline ==
    /\ [](/\ workScheduler <= 1
          /\ workScheduler = Cardinality(mPublishWork)
          /\ mPublishWork # {} =>
                \A has \in Snapshots :
                    takeSnapshotAndPublish(mPublishWork, workScheduler, has)
                        = <<mPublishWork, workScheduler>>)
    /\ [][ lastCall'.op = "publishQueuedHistory" /\ mPublishWork # {} =>
              /\ mPublishWork' = mPublishWork
              /\ workScheduler' = workScheduler
              /\ ~lastCall'.scheduled
         ]_vars

\* C3 witness: publishQueuedHistory found rows to publish and scheduled
\* nothing, the pipeline that was active being still the only one.
C3_Witness ==
    /\ lastCall.op = "publishQueuedHistory"
    /\ lastCall.ret = 1
    /\ ~lastCall.scheduled
    /\ mPublishWork # {}
    /\ workScheduler = 1
    /\ Cardinality(DOMAIN publishqueue) = 2

\* The number of queued descriptors that reference bucket b.
QueuedReferences(b) ==
    Cardinality({l \in DOMAIN publishqueue :
                    \E i \in 2..Len(publishqueue[l]) : publishqueue[l][i] = b})

\* C4: once getBucketsReferencedByPublishQueue has been called, whether
\* before or after the queue was changed, the index holds for each bucket the
\* number of queued descriptors that reference it, and no entry for a bucket
\* none references: the call returns exactly the buckets referenced.
C4_ReferencedBuckets ==
    mPublishQueueBucketsFilled =>
        \A b \in Buckets :
            /\ b \in DOMAIN mPublishQueueBuckets <=> QueuedReferences(b) > 0
            /\ b \in DOMAIN mPublishQueueBuckets =>
                   mPublishQueueBuckets[b] = QueuedReferences(b)

\* C4 witness: the index was loaded after a restart with a row in the table,
\* and a confirmed publication has since taken a bucket out of it while
\* another row still references the other bucket.
C4_Witness ==
    /\ mPublishQueueBucketsFilled
    /\ lastCall.op = "historyPublished"
    /\ lastCall.success
    /\ lastCall.buckets = {1, 2}
    /\ DOMAIN mPublishQueueBuckets = {1}
    /\ mPublishQueued = 1
    /\ Cardinality(DOMAIN publishqueue) = 1

\* C5: crash recovery. The active pipeline is always for a ledger whose
\* descriptor is in the table; no ledger is confirmed as published more than
\* once, restarts included; a restart leaves the table as it was, and a
\* descriptor leaves the table only when its own publication is confirmed,
\* the others keeping their text.
C5_CrashRecovery ==
    /\ [](/\ \A w \in mPublishWork : w.ledger \in DOMAIN publishqueue
          /\ \A l \in DOMAIN marks : marks[l] <= 1)
    /\ [][ /\ lastCall'.op = "restart" => publishqueue' = publishqueue
           /\ \A l \in DOMAIN publishqueue :
                 IF l \in DOMAIN publishqueue'
                 THEN publishqueue'[l] = publishqueue[l]
                 ELSE /\ IsPublished /\ lastCall'.success /\ lastCall'.ledger = l
                      /\ l \in DOMAIN marks' /\ marks'[l] = 1
         ]_vars

\* C5 witness: two ledgers have been confirmed, one of them before the last
\* restart and the other, whose descriptor outlived the restart, after it.
C5_Witness ==
    /\ Cardinality(DOMAIN marks) = 2
    /\ mPublishSuccess = 1
    /\ mPublishQueued = 0
    /\ lastCall.op = "historyPublished"
    /\ lastCall.success
    /\ publishqueue = NoMarks

\* C6: maybeQueueHistoryCheckpoint, with L the last closed ledger, inserts
\* the row L exactly when L + 1 = nextCheckpointLedger(L + 1) and an archive
\* is writable, and returns true; otherwise it returns false and leaves the
\* table, the queued counter and the bucket index as they were. So every key
\* L of the table is the last ledger of a checkpoint.
C6_OnlyAtCheckpoints ==
    /\ [](\A l \in DOMAIN publishqueue :
              /\ checkpointContainingLedger(l) = l
              /\ (l + 1) % getCheckpointFrequency = 0)
    /\ [][ lastCall'.op = "maybeQueueHistoryCheckpoint" =>
              LET L == lastCall'.ledger
              IN  IF L + 1 = nextCheckpointLedger(L + 1) /\ lastCall'.writable
                  THEN /\ lastCall'.ret = 1
                       /\ L \notin DOMAIN publishqueue
                       /\ DOMAIN publishqueue' = DOMAIN publishqueue \cup {L}
                       /\ mPublishQueued' = mPublishQueued + 1
                  ELSE /\ lastCall'.ret = 0
                       /\ ~lastCall'.threw
                       /\ publishqueue' = publishqueue
                       /\ mPublishQueued' = mPublishQueued
                       /\ mPublishQueueBuckets' = mPublishQueueBuckets
         ]_vars

\* C6 witness: at frequency 64 the checkpoint of ledger 127 was queued after
\* the one of ledger 63, by the call that closed ledger 127.
C6_Witness ==
    /\ ~accelerate
    /\ lastCall.op = "maybeQueueHistoryCheckpoint"
    /\ lastCall.ret = 1
    /\ lastCall.ledger = 127
    /\ DOMAIN publishqueue = {63, 127}

\* The step is a queueCurrentHistory at a ledger that has a row already.
IsDuplicateEnqueue ==
    /\ lastCall'.op = "queueCurrentHistory"
    /\ lastCall'.ledger \in DOMAIN publishqueue

\* What a rejected enqueue leaves alone: one row for the ledger, with its
\* text, the queued counter and the bucket index.
EnqueueRejected ==
    /\ publishqueue' = publishqueue
    /\ mPublishQueued' = mPublishQueued
    /\ mPublishQueueBuckets' = mPublishQueueBuckets

\* C7, as amended: enqueueing at a ledger that has a row already fails by the
\* exception of the INSERT on the primary key; the table keeps its one row
\* for that ledger, and neither the queued counter nor the bucket index grows.
C7_DuplicateEnqueueThrows ==
    [][IsDuplicateEnqueue => lastCall'.threw /\ EnqueueRejected]_vars

\* C7, as claimed: the enqueue fails as an outcome of the call, without an
\* exception, and leaves the table, the counter and the index alone.
C7_DuplicateEnqueueFailsLogically ==
    [][IsDuplicateEnqueue => ~lastCall'.threw /\ EnqueueRejected]_vars

\* C7 witness: a second enqueue at a queued ledger has thrown, with one row
\* queued and counted.
C7_Witness ==
    /\ lastCall.op = "queueCurrentHistory"
    /\ lastCall.threw
    /\ DOMAIN publishqueue = {lastCall.ledger}
    /\ mPublishQueued = 1
    /\ \A b \in DOMAIN mPublishQueueBuckets : mPublishQueueBuckets[b] = 1

\* C8, as claimed: a success confirmation for a ledger that has no row (it
\* was confirmed already, or was never queued) is not processed: the success
\* counter does not grow again and no bucket count is decremented again.
C8_DoubleConfirmationIgnored ==
    [][(/\ IsPublished
        /\ lastCall'.success
        /\ lastCall'.ledger \notin DOMAIN publishqueue)
       => /\ mPublishSuccess' = mPublishSuccess
          /\ mPublishQueueBuckets' = mPublishQueueBuckets]_vars

\* The reference count the index holds for bucket b, 0 when it has no entry.
CountOf(map, b) == IF b \in DOMAIN map THEN map[b] ELSE 0

\* The step is a publishQueuedHistory run from the callback that
\* historyPublished posted, not a call from outside.
IsPostedPublish == lastCall'.op = "publishQueuedHistory" /\ posted' < posted

\* C9: historyPublished(N, buckets, true) deletes the row of N and no other,
\* takes one reference off each of buckets in the index, marks one success,
\* clears mPublishWork and posts a publishQueuedHistory; that callback, with
\* no call from outside, starts the pipeline for the lowest row left when
\* publication is enabled and no pipeline has been started meanwhile.
C9_SelfDriving ==
    [][ /\ IsPublished /\ lastCall'.success =>
              /\ DOMAIN publishqueue' = DOMAIN publishqueue \ {lastCall'.ledger}
              /\ \A l \in DOMAIN publishqueue' : publishqueue'[l] = publishqueue[l]
              /\ \A b \in Buckets :
                    CountOf(mPublishQueueBuckets', b) =
                        IF b \in lastCall'.buckets /\ CountOf(mPublishQueueBuckets, b) > 0
                        THEN CountOf(mPublishQueueBuckets, b) - 1
                        ELSE CountOf(mPublishQueueBuckets, b)
              /\ mPublishSuccess' = mPublishSuccess + 1
              /\ mPublishFailure' = mPublishFailure
              /\ mPublishWork' = {}
              /\ posted' = posted + 1
        /\ IsPostedPublish =>
              IF mPublicationEnabled /\ DOMAIN publishqueue # {} /\ mPublishWork = {}
              THEN /\ lastCall'.scheduled
                   /\ \E w \in mPublishWork' :
                         /\ mPublishWork' = {w}
                         /\ w.ledger = getMinLedgerQueuedToPublish
              ELSE /\ ~lastCall'.scheduled
                   /\ mPublishWork' = mPublishWork
      ]_vars

\* C9 witness: a checkpoint has just been confirmed, its row is gone, a later
\* checkpoint is still queued, no pipeline is active and the callback that
\* will start the next publication is posted.
C9_Witness ==
    /\ lastCall.op = "historyPublished"
    /\ lastCall.success
    /\ lastCall.ledger \in DOMAIN marks
    /\ lastCall.ledger \notin DOMAIN publishqueue
    /\ \E l \in DOMAIN publishqueue : l > lastCall.ledger
    /\ mPublishWork = {}
    /\ posted = 1
    /\ mPublishSuccess = 1

\* C10: historyPublished(N, buckets, false) marks one failure and leaves
\* mPublishWork empty; the table, the bucket index, the success counter and
\* the enqueue times (that of N among them) are as they were.
C10_FailureFrame ==
    [][ IsPublished /\ ~lastCall'.success =>
            /\ mPublishFailure' = mPublishFailure + 1
            /\ mPublishWork' = {}
            /\ publishqueue' = publishqueue
            /\ mPublishQueueBuckets' = mPublishQueueBuckets
            /\ mPublishSuccess' = mPublishSuccess
            /\ mEnqueueTimes' = mEnqueueTimes
      ]_vars

\* C10 witness: the publication of a queued checkpoint has failed; its enqueue
\* time and its buckets' references are kept and no pipeline is active.
C10_Witness ==
    /\ lastCall.op = "historyPublished"
    /\ ~lastCall.success
    /\ lastCall.ledger \in DOMAIN publishqueue
    /\ lastCall.ledger \in DOMAIN mEnqueueTimes
    /\ \A b \in allBuckets(fromString(publishqueue[lastCall.ledger])) :
           CountOf(mPublishQueueBuckets, b) >= 1
    /\ mPublishWork = {}
    /\ mPublishFailure = 1
    /\ mPublishSuccess = 0

\* The call before this step was a historyPublished reporting a failure.
AfterFailure == lastCall.op = "historyPublished" /\ ~lastCall.success

\* C11, as amended: historyPublished(N, _, false) posts a publishQueuedHistory
\* as it does on success; when that callback runs next, with publication
\* enabled, it starts a new pipeline for the failed ledger, with no call from
\* outside.
C11_FailureRetriedByCallback ==
    [][ /\ IsPublished /\ ~lastCall'.success =>
              /\ posted' = posted + 1
              /\ mPublishWork' = {}
        /\ (/\ AfterFailure
            /\ IsPostedPublish
            /\ mPublicationEnabled
            /\ lastCall.ledger \in DOMAIN publishqueue) =>
              /\ lastCall'.scheduled
              /\ mPublishWork' =
                     {PublishWork(fromString(publishqueue[lastCall.ledger]))}
      ]_vars

\* C11, as claimed: after a failed publication the history manager does not
\* start a pipeline by itself; a pipeline that starts right after the failure
\* is started by a call from outside.
C11_RetryOnlyOnExternalTick ==
    [][AfterFailure /\ StartsPipeline => ~IsPostedPublish]_vars

\* C11 witness: one publication has failed and none succeeded, the callback
\* posted by the failure has run, and a pipeline is active again for the
\* ledger that failed, still the lowest queued.
C11_Witness ==
    /\ mPublishFailure = 1
    /\ mPublishSuccess = 0
    /\ posted = 0
    /\ lastCall.op = "publishQueuedHistory"
    /\ lastCall.scheduled
    /\ \E w \in mPublishWork : w.ledger = getMinLedgerQueuedToPublish
    /\ marks = NoMarks

\* What getBucketsReferencedByPublishQueue() returns when called in this state.
ReferencedBuckets ==
    DOMAIN FilledBuckets(mPublishQueueBuckets, mPublishQueueBucketsFilled)

\* The buckets the descriptor queued at ledger l references.
BucketsQueuedAt(l) == allBuckets(fromString(publishqueue[l]))

\* C12: enqueue/confirm round trip. When the publication of the snapshot S
\* queued at ledger N is confirmed with the buckets of S while some other
\* snapshot is queued, the row of N is gone and a bucket of S is returned by
\* getBucketsReferencedByPublishQueue() afterwards exactly when a snapshot
\* still queued references it.
C12_RoundTrip ==
    [][ (/\ IsPublished /\ lastCall'.success
         /\ lastCall'.ledger \in DOMAIN publishqueue
         /\ DOMAIN publishqueue \ {lastCall'.ledger} # {}
         /\ lastCall'.buckets = BucketsQueuedAt(lastCall'.ledger)) =>
            /\ DOMAIN publishqueue' = DOMAIN publishqueue \ {lastCall'.ledger}
            /\ \A b \in lastCall'.buckets :
                   b \in ReferencedBuckets' <=>
                       \E t \in DOMAIN publishqueue \ {lastCall'.ledger} :
                           b \in BucketsQueuedAt(t)
      ]_vars

\* C12 witness: two snapshots were enqueued in this run and the index was
\* loaded; the later one, with buckets {1, 2}, has been confirmed, bucket 2 has left
\* the index and bucket 1, which the snapshot still queued references, is in it.
C12_Witness ==
    /\ mPublishQueued = 2
    /\ mPublishQueueBucketsFilled
    /\ lastCall.op = "historyPublished"
    /\ lastCall.success
    /\ lastCall.buckets = {1, 2}
    /\ \E t \in DOMAIN publishqueue :
           /\ DOMAIN publishqueue = {t}
           /\ t < lastCall.ledger
           /\ BucketsQueuedAt(t) = {1}
    /\ ReferencedBuckets = {1}
    /\ mPublishQueueBuckets[1] = 1

\* Two snapshots are queued, at ledgers A < B, and nothing was confirmed yet
\* but f failures.
TwoQueued(A, B, f) ==
    /\ A < B
    /\ DOMAIN publishqueue = {A, B}
    /\ mPublishSuccess = 0
    /\ mPublishFailure = f

\* C13: fail, then succeed. With snapshots queued at A < B, the failed
\* confirmation of A leaves both rows and counts one failure; the successful
\* confirmation of A that follows it leaves only the row of B, as it was,
\* with one success and one failure counted.
C13_FailThenSucceed ==
    [][ \A A, B \in LedgerValues :
          /\ (TwoQueued(A, B, 0) /\ IsPublished /\ ~lastCall'.success
                /\ lastCall'.ledger = A) =>
                 /\ publishqueue' = publishqueue
                 /\ mPublishSuccess' = 0
                 /\ mPublishFailure' = 1
          /\ (TwoQueued(A, B, 1) /\ AfterFailure /\ lastCall.ledger = A
                /\ IsPublished /\ lastCall'.success /\ lastCall'.ledger = A) =>
                 /\ DOMAIN publishqueue' = {B}
                 /\ publishqueue'[B] = publishqueue[B]
                 /\ mPublishSuccess' = 1
                 /\ mPublishFailure' = 1
      ]_vars

\* C13 witness: checkpoint frequency 64, snapshots were queued at ledgers 64
\* and 128, and the success of 64 has been confirmed right after its failure: only
\* 128 is queued, and the callbacks of both confirmations are posted.
C13_Witness ==
    /\ ~accelerate
    /\ mPublishQueued = 2
    /\ lastCall.op = "historyPublished"
    /\ lastCall.success
    /\ lastCall.ledger = 64
    /\ DOMAIN publishqueue = {128}
    /\ mPublishSuccess = 1
    /\ mPublishFailure = 1
    /\ posted = 2

\* b is a checkpoint boundary: a multiple of the frequency, minus one.
IsBoundary(b) == (b + 1) % getCheckpointFrequency = 0

\* The smallest checkpoint boundary at or above ledger L, in the integers.
SmallestBoundaryFrom(L) ==
    CHOOSE b \in L..(L + getCheckpointFrequency) :
        /\ IsBoundary(b)
        /\ \A c \in L..(b - 1) : ~IsBoundary(c)

\* C14, as claimed: for every ledger L of the word and both frequencies,
\* checkpointContainingLedger(L) is the smallest checkpoint boundary that is
\* at or above L.
C14_SmallestBoundary ==
    lastCall.op = "checkpointContainingLedger" =>
        lastCall.ret = SmallestBoundaryFrom(lastCall.ledger)

\* The smallest multiple of the frequency at or above L, in the integers:
\* ceil(L / F) * F.
CeilingMultiple(L) ==
    CHOOSE m \in L..(L + getCheckpointFrequency - 1) :
        m % getCheckpointFrequency = 0

\* The largest multiple of the frequency at or below L, in the integers:
\* floor(L / F) * F.
FloorMultiple(L) ==
    CHOOSE m \in (L - getCheckpointFrequency + 1)..L :
        m % getCheckpointFrequency = 0

\* C15, as claimed: nextCheckpointLedger returns F for ledger 0 and
\* ceil(L / F) * F for every other ledger L of the word, those within F of
\* the end of the word included, and prevCheckpointLedger returns
\* floor(L / F) * F for every L.
C15_NextAndPrevTotal ==
    /\ lastCall.op = "nextCheckpointLedger" =>
           lastCall.ret = IF lastCall.ledger = 0
                          THEN getCheckpointFrequency
                          ELSE CeilingMultiple(lastCall.ledger)
    /\ lastCall.op = "prevCheckpointLedger" =>
           lastCall.ret = FloorMultiple(lastCall.ledger)

\* C16, as claimed: checkpointContainingLedger is idempotent on every ledger
\* of the word.
C16_ContainingIdempotent ==
    lastCall.op = "checkpointContainingLedger" =>
        checkpointContainingLedger(lastCall.ret) = lastCall.ret

\* C17, as claimed: for every ledger L of the word,
\* prevCheckpointLedger(nextCheckpointLedger(L)) equals nextCheckpointLedger(L)
\* and is neither below prevCheckpointLedger(L) nor below L.
C17_PrevOfNext ==
    lastCall.op = "nextCheckpointLedger" =>
        /\ prevCheckpointLedger(lastCall.ret) = lastCall.ret
        /\ prevCheckpointLedger(lastCall.ret) >= prevCheckpointLedger(lastCall.ledger)
        /\ prevCheckpointLedger(lastCall.ret) >= lastCall.ledger

\* The state of node n of the Work tree.
StateOf(n) == works[n].state

\* Node n is started in this step.
Starts(n) == StateOf(n) = "PENDING" /\ StateOf(n)' = "RUNNING"

\* C18: the sequence runs its children in order and fails as soon as one
\* fails: a child starts only when all children before it have succeeded, so
\* writeSnap only after resolveFutures succeeded and putSnap only after
\* writeSnap succeeded; once a child has failed no child starts and the next
\* change of the running sequence is its failure (or its abort);
\* historyPublished reports success only when all three stages have succeeded.
C18_SequenceInOrder ==
    [][ /\ \A i \in DOMAIN PublishStages :
              Starts(PublishStages[i]) =>
                  \A j \in 1..(i - 1) : StateOf(PublishStages[j]) = "SUCCESS"
        /\ Starts("writeSnap") => StateOf("resolveFutures") = "SUCCESS"
        /\ Starts("putSnap") => StateOf("writeSnap") = "SUCCESS"
        /\ (\E c \in Stages : StateOf(c) = "FAILURE") =>
              /\ \A c \in Stages : ~Starts(c)
              /\ (StateOf("PublishWork") = "RUNNING" /\ works' # works) =>
                     StateOf("PublishWork")' \in {"FAILURE", "ABORTING"}
        /\ IsPublished /\ lastCall'.success =>
              \A n \in PublishNodes : StateOf(n) = "SUCCESS"
        /\ IsPublished /\ ~lastCall'.success =>
              /\ StateOf("PublishWork") = "FAILURE"
              /\ \E c \in Stages : StateOf(c) = "FAILURE"
      ]_vars

\* C18 witness: resolveFutures succeeded, writeSnap failed after its retries,
\* the sequence has failed and putSnap was never started.
C18_Witness ==
    /\ mPublishWork # {}
    /\ StateOf("resolveFutures") = "SUCCESS"
    /\ StateOf("writeSnap") = "FAILURE"
    /\ works["writeSnap"].retries = MaxRetries
    /\ StateOf("putSnap") = "PENDING"
    /\ StateOf("PublishWork") = "FAILURE"

\* C19: abort is cooperative. A requested abort puts the root in ABORTING;
\* a node becomes ABORTED only from ABORTING; the sequence becomes ABORTED
\* only when each of its children has ended; and the ApplyCheckpointWork,
\* whose onAbort returns true, is ABORTED by the first crank it gets while
\* ABORTING.
C19_CooperativeAbort ==
    [][ /\ lastCall'.op = "requestAbort" =>
              \E n \in Roots :
                  /\ StateOf(n) \notin Terminal
                  /\ StateOf(n)' = "ABORTING"
        /\ \A n \in Nodes :
              (StateOf(n)' = "ABORTED" /\ StateOf(n) # "ABORTED") =>
                  StateOf(n) = "ABORTING"
        /\ (StateOf("PublishWork")' = "ABORTED" /\ StateOf("PublishWork") # "ABORTED") =>
              \A c \in Stages : StateOf(c) \in Terminal /\ StateOf(c)' = StateOf(c)
        /\ (StateOf("ApplyCheckpointWork") = "ABORTING" /\ lastCall'.op = "crankWork") =>
              StateOf("ApplyCheckpointWork")' = "ABORTED"
      ]_vars

\* C19 witness: the pipeline was aborted while writeSnap was in flight: the
\* stage that had succeeded kept its state, the two others were aborted, and
\* the sequence is aborted after them.
C19_Witness ==
    /\ mPublishWork # {}
    /\ StateOf("PublishWork") = "ABORTED"
    /\ StateOf("resolveFutures") = "SUCCESS"
    /\ StateOf("writeSnap") = "ABORTED"
    /\ StateOf("putSnap") = "ABORTED"
    /\ works["writeSnap"].retries = 1

\* C20: retries are bounded. A node enters RETRYING, and from there RUNNING
\* again, at most as many times as it has retries; a leaf fails for good
\* only from RUNNING with its retries used up, and then it does not retry;
\* a node in SUCCESS, FAILURE or ABORTED keeps its state for as long as it
\* exists (the nodes of a PublishWork that ended are discarded by the report
\* to the history manager).
C20_BoundedRetries ==
    [][ \A n \in Nodes :
          /\ works[n].retries <= RetriesOf(n)
          /\ works'[n].retries <= RetriesOf(n)
          /\ RetriesOf(n) <= MaxRetries
          /\ (StateOf(n)' = "RETRYING" /\ StateOf(n) # "RETRYING") =>
                 /\ StateOf(n) = "RUNNING"
                 /\ works'[n].retries = works[n].retries + 1
          /\ (StateOf(n) = "RETRYING" /\ StateOf(n)' # "RETRYING") =>
                 StateOf(n)' \in {"RUNNING", "ABORTING"}
          /\ (StateOf(n) = "RUNNING" /\ works[n].retries = RetriesOf(n)) =>
                 StateOf(n)' # "RETRYING"
          /\ (n \in Leaves /\ StateOf(n)' = "FAILURE" /\ StateOf(n) # "FAILURE") =>
                 /\ StateOf(n) = "RUNNING"
                 /\ works[n].retries = RetriesOf(n)
          /\ StateOf(n) \in Terminal =>
                 \/ works'[n] = works[n]
                 \/ n \in PublishNodes /\ IsPublished /\ works'[n] = NewWork
      ]_vars

\* C20 witness: resolveFutures succeeded on its last retry, writeSnap
\* succeeded at once, and putSnap has failed for good after using its retries.
C20_Witness ==
    /\ StateOf("resolveFutures") = "SUCCESS"
    /\ works["resolveFutures"].retries = MaxRetries
    /\ StateOf("writeSnap") = "SUCCESS"
    /\ works["writeSnap"].retries = 0
    /\ StateOf("putSnap") = "FAILURE"
    /\ works["putSnap"].retries = MaxRetries
    /\ MaxRetries > 0


\* C21: allChildrenDone() is true exactly when every root the scheduler
\* holds is in a terminal state, and under a fair event loop every root the
\* scheduler holds reaches a terminal state, so that a caller that polls
\* allChildrenDone() while it cranks eventually sees true.
C21_AllChildrenDone ==
    /\ [](allChildrenDone <=> \A n \in Children : works[n].state \in Terminal)
    /\ \A n \in Roots : (n \in Children) ~> (works[n].state \in Terminal)
    /\ []<>allChildrenDone

\* A failed PublishWork the scheduler still holds: all children are done.
C21_Witness ==
    /\ Children = {"PublishWork"}
    /\ works["PublishWork"].state = "FAILURE"
    /\ works["writeSnap"].state = "FAILURE"
    /\ works["writeSnap"].retries = MaxRetries
    /\ allChildrenDone


\* The header the next run of ApplyCheckpointWork reads: the set of that
\* record, empty at the end of the file.
NextHeader == HeaderAt(Opened(catchup), Opened(catchup).mHdrIn)

\* The step is a run of ApplyCheckpointWork::onRun.
IsOnRun ==
    /\ works["ApplyCheckpointWork"].state = "RUNNING"
    /\ lastCall'.op = "onRun"

C23_ChainBreakFails ==
    [][/\ \A header \in NextHeader :
              (/\ IsOnRun
               /\ header.ledgerSeq = lcl + 1
               /\ header.previousLedgerHash # catchup.lclHash) =>
                  /\ works'["ApplyCheckpointWork"] = [state |-> "FAILURE", retries |-> 0]
                  /\ lcl' = lcl
                  /\ catchup'.lclHash = catchup.lclHash
                  /\ catchup'.mTxIn = Opened(catchup).mTxIn
       /\ works["ApplyCheckpointWork"].state = "FAILURE" =>
              works'["ApplyCheckpointWork"] = works["ApplyCheckpointWork"]]_vars

\* The work failed at a forged previousLedgerHash after it had applied the
\* ledgers before it.
C23_Witness ==
    /\ works["ApplyCheckpointWork"].state = "FAILURE"
    /\ lastCall.op = "onRun"
    /\ catchup.fault = "previousLedgerHash"
    /\ lcl = catchup.at - 1
    /\ lcl > catchup.lclAtStart
    /\ catchup.mHdrIn = catchup.mTxIn + 1


\* C24: a checkpoint is applied in full or not at all: whenever the
\* ApplyCheckpointWork has ended in FAILURE or was aborted, the local last
\* closed ledger is the one it was when the work started.
C24_AllOrNothing ==
    works["ApplyCheckpointWork"].state \in {"FAILURE", "ABORTED"} =>
        /\ lcl = catchup.lclAtStart
        /\ catchup.lclHash = LedgerHash(catchup.lclAtStart)

\* C25: with a hash mismatch at a ledger k of the range that the local
\* ledger has not closed yet, in the previousLedgerHash of k or between the
\* hash computed locally for k and the one in the header file, a work that
\* ends without being aborted ends in FAILURE with the local last closed
\* ledger at k - 1, never at k.
C25_MismatchLeavesPrevious ==
    (/\ catchup.fault \in {"previousLedgerHash", "hash"}
     /\ catchup.at \in catchup.mCheckpointRange.mFirst..catchup.mCheckpointRange.mLast
     /\ catchup.at > catchup.lclAtStart
     /\ works["ApplyCheckpointWork"].state \in {"SUCCESS", "FAILURE"}) =>
        /\ works["ApplyCheckpointWork"].state = "FAILURE"
        /\ lcl = catchup.at - 1
        /\ catchup.lclHash = LedgerHash(catchup.at - 1)


\* The example of the spec: frequency 64, last closed ledger 63, target 200.
IsExample(complete, n) ==
    /\ ~accelerate
    /\ lcl = 63
    /\ lastCall.configuration.toLedger = 200
    /\ lastCall.configuration.complete = complete
    /\ lastCall.configuration.count = n

\* C26: when everything is replayed, or the target is within the replay
\* window of the last closed ledger, no buckets are applied and the ledgers
\* to apply are exactly lastClosed + 1 .. target, so that target - lastClosed
\* ledgers are expected to be applied.
C26_ReplayFromLastClosed ==
    (/\ lastCall.op = "computeCatchupPerformedWork"
     /\ ReplaysAll(lcl, lastCall.configuration)) =>
        /\ ~lastCall.catchupRange.mApplyBuckets
        /\ lastCall.catchupRange.mLedgers.mFirst = lcl + 1
        /\ getLast(lastCall.catchupRange) = lastCall.configuration.toLedger
        /\ lastCall.work.transactionsApplied = lastCall.configuration.toLedger - lcl
        /\ ~lastCall.work.bucketsApplied

\* The example: the ledgers 64 .. 200 are replayed, 137 of them.
C26_Witness ==
    /\ lastCall.op = "computeCatchupPerformedWork"
    /\ IsExample(TRUE, 0)
    /\ lastCall.catchupRange = [mLedgers |-> [mFirst |-> 64, mCount |-> 137],
                                mApplyBuckets |-> FALSE]
    /\ lastCall.work.transactionsApplied = 137

SpansApplied ==
    /\ lastCall.applyCheckpointRange.mFirst
           = checkpointContainingLedger(lastCall.catchupRange.mLedgers.mFirst)
    /\ lastCall.applyCheckpointRange.mLast
           = checkpointContainingLedger(getLast(lastCall.catchupRange))
    /\ lastCall.verifyCheckpointRange.mLast = lastCall.applyCheckpointRange.mLast

\* The verify CheckpointRange starts one checkpoint before the apply one
\* when earlier holds, and at the same checkpoint otherwise.
VerifyStartsEarlierIff(earlier) ==
    lastCall.verifyCheckpointRange.mFirst =
        IF earlier
        THEN lastCall.applyCheckpointRange.mFirst - getCheckpointFrequency
        ELSE lastCall.applyCheckpointRange.mFirst

\* count() of a range whose first and last checkpoint are the same is 1.
CountsOnce ==
    (lastCall.op = "CheckpointRange" /\ lastCall.range.mFirst = lastCall.range.mLast)
        => lastCall.count = 1

AllPublished ==
    /\ mPublishSuccess = mPublishQueued
    /\ publishqueue = NoMarks
    /\ mPublishWork = {}
    /\ mPublishFailure = 0

\* C30: if no PublishWork ever fails and the event loop keeps being cranked,
\* then once ledgers have stopped closing every checkpoint queued is
\* published: from some point on the success count is the queued count, the
\* queue is empty, no PublishWork is scheduled, and the failure count is 0.
C30_PublicationLiveness == [](mPublishFailure = 0) => <>[]AllPublished

\* Both checkpoints were queued and published, and no callback is left.
C30_Witness ==
    /\ AllPublished
    /\ mPublishQueued = MaxCheckpoints
    /\ posted = 0
    /\ \A l \in LedgerValues : l <= lcl


\* C31: whenever a catchup has ended, successfully or not, with the local
\* last closed ledger at n >= 2, the local last closed sequence, ledger hash
\* and bucket list hash are the ones the publishing node recorded when it
\* closed ledger n.
C31_CatchupReproducesHistory ==
    (works["ApplyCheckpointWork"].state \in Terminal /\ lcl >= 2) =>
        validateCatchup(lcl, catchup)


\* C32: ApplyCheckpointWork applies the ledgers in ascending order with no
\* gap and no ledger applied twice: every step leaves the local last closed
\* sequence as it was or advances it by exactly one, the only ledger applied
\* is the one after the last closed ledger, read by a run of onRun from the
\* header and the transaction file, and the work becomes SUCCESS only with
\* the last ledger of its range as the last closed one.
C32_AscendingNoGaps ==
    [][/\ lcl' \in {lcl, lcl + 1}
       /\ lcl' # lcl =>
              /\ IsOnRun
              /\ \E header \in NextHeader : header.ledgerSeq = lcl + 1
              /\ TxAt(catchup, Opened(catchup).mTxIn) = lcl + 1
       /\ (works["ApplyCheckpointWork"].state # "SUCCESS"
              /\ works'["ApplyCheckpointWork"].state = "SUCCESS") =>
              lcl' = catchup.mCheckpointRange.mLast]_vars

\* The work ended in SUCCESS after it skipped a ledger closed before and
\* applied two more, up to the last ledger of its range.
C32_Witness ==
    /\ works["ApplyCheckpointWork"].state = "SUCCESS"
    /\ lastCall.op = "onRun"
    /\ lcl = catchup.mCheckpointRange.mLast
    /\ lcl = catchup.lclAtStart + 2
    /\ catchup.mHdrIn > 2


\* The ledgers of the queued entries, read from the descriptors stored.
QueuedLedgers == {has.currentLedger : has \in getPublishQueueStates}

\* C33: in every reachable state publishQueueLength() is the number of
\* queued entries, getMinLedgerQueuedToPublish() and
\* getMaxLedgerQueuedToPublish() are the smallest and the largest ledger
\* queued, the first at most the second, and both are 0 when the queue is
\* empty.
C33_QueueQueries ==
    /\ publishQueueLength = Cardinality(getPublishQueueStates)
    /\ publishQueueLength = Cardinality(QueuedLedgers)
    /\ QueuedLedgers = {} =>
           /\ getMinLedgerQueuedToPublish = 0
           /\ getMaxLedgerQueuedToPublish = 0
    /\ QueuedLedgers # {} =>
           /\ getMinLedgerQueuedToPublish \in QueuedLedgers
           /\ getMaxLedgerQueuedToPublish \in QueuedLedgers
           /\ \A l \in QueuedLedgers :
                  /\ getMinLedgerQueuedToPublish <= l
                  /\ l <= getMaxLedgerQueuedToPublish
           /\ getMinLedgerQueuedToPublish <= getMaxLedgerQueuedToPublish

\* Two checkpoints are queued: the three queries give 2, the lower and the
\* higher ledger.
C33_Witness ==
    /\ mPublishQueued = 2
    /\ publishQueueLength = 2
    /\ Cardinality(QueuedLedgers) = 2
    /\ getMinLedgerQueuedToPublish < getMaxLedgerQueuedToPublish
    /\ getMinLedgerQueuedToPublish > 0


\* C34: from an empty queue, with no restart and with confirmations only
\* from the active pipeline for its own ledger, in every reachable state
\* publishQueueLength() = getPublishQueueCount() - getPublishSuccessCount(),
\* hence getPublishSuccessCount() <= getPublishQueueCount().
C34_CounterConsistency ==
    /\ publishQueueLength = mPublishQueued - mPublishSuccess
    /\ mPublishSuccess <= mPublishQueued

\* Two checkpoints were queued, a publication failed and then one
\* succeeded: one checkpoint is left in the queue.
C34_Witness ==
    /\ mPublishQueued = 2
    /\ mPublishSuccess = 1
    /\ mPublishFailure > 0
    /\ publishQueueLength = 1


\* The step is a call of publishQueuedHistory, from outside or posted.
IsPublishQueuedHistory == lastCall'.op = "publishQueuedHistory"

\* C35: publishQueuedHistory returns 0 and starts nothing when the queue is
\* empty or publication is disabled; with publication enabled it returns 1
\* whenever the queue is not empty, also when a pipeline is active already
\* and no new one is started; and no call changes the publishqueue table or
\* the index of the buckets the queue references.
C35_PublishQueuedHistoryReturn ==
    [][IsPublishQueuedHistory =>
          /\ (DOMAIN publishqueue = {} \/ ~mPublicationEnabled) =>
                 /\ lastCall'.ret = 0
                 /\ mPublishWork' = mPublishWork
                 /\ workScheduler' = workScheduler
          /\ (DOMAIN publishqueue # {} /\ mPublicationEnabled) =>
                 /\ lastCall'.ret = 1
                 /\ mPublishWork # {} =>
                        /\ mPublishWork' = mPublishWork
                        /\ workScheduler' = workScheduler
                 /\ mPublishWork = {} =>
                        /\ Cardinality(mPublishWork') = 1
                        /\ workScheduler' = workScheduler + 1
          /\ publishqueue' = publishqueue
          /\ mPublishQueueBuckets' = mPublishQueueBuckets
          /\ mPublishQueueBucketsFilled' = mPublishQueueBucketsFilled]_vars

\* publishQueuedHistory returned 1 with two checkpoints queued and the
\* pipeline of the first still active: it started nothing.
C35_Witness ==
    /\ lastCall.op = "publishQueuedHistory"
    /\ lastCall.ret = 1
    /\ ~lastCall.scheduled
    /\ mPublishWork # {}
    /\ workScheduler = 1
    /\ publishQueueLength = 2
    /\ mPublishQueueBuckets # NoMarks

====
